---- MODULE Spec2Model ----
(***************************************************************************)
(* Model of the Zava concept-analysis orchestration: the FastAPI request   *)
(* handlers of backend.py, the run task execute_concept_analysis_async and *)
(* the controller ZavaConceptWorkflowManager of core/workflow_manager.py,  *)
(* with the approval routing of core/approval.py.                          *)
(*                                                                         *)
(* Scheduling is the cooperative scheduling of one asyncio event loop: a   *)
(* coroutine runs until it really suspends.  A run task suspends while it  *)
(* awaits the workflow stream, the approval event, or the closing of its   *)
(* chat clients, and inside broadcast_message when at least one websocket  *)
(* is connected (await connection.send_text).  The variable cur names the  *)
(* run task that holds the event loop between two suspensions.             *)
(*                                                                         *)
(* Strings are sequences of one-character strings, so that strip() and     *)
(* lower() are computed.  The lists steps and outputs of the status object *)
(* are only appended to and reset; their entries are never read by the     *)
(* program, and the model keeps their lengths.                             *)
(***************************************************************************)
EXTENDS Integers, Sequences, FiniteSets, TLC

(***************************************************************************)
(* Bounds of the model.                                                    *)
(***************************************************************************)
MaxRuns == 2        \* accepted start requests (managers and run tasks created)
MaxUploads == 1     \* accepted uploads
MaxRequests == 2    \* RequestInfoEvents the workflow yields in one iteration
MaxInputLen == 3    \* length of the enumerated raw inputs of route_decision

MaxPublishes == 2   \* broadcast_message calls of the broadcast specification
MaxWords == 2       \* words of an enumerated analysis text

Runs == 1..MaxRuns
Clients == {"ui1", "ui2"}            \* websocket clients
Subs == {"ui1"}                     \* the clients that connect during a run
Callers == {"task", "handler"}      \* coroutines that call broadcast_message

VARIABLES
    status,             \* current_analysis_status.status
    progress,           \* current_analysis_status.progress
    current_step,       \* current_analysis_status.current_step
    steps,              \* len(current_analysis_status.steps)
    outputs,            \* len(current_analysis_status.outputs)
    approval_request,   \* current_analysis_status.approval_request
    error,              \* current_analysis_status.error
    workflow_manager,   \* backend.workflow_manager: 0 is None, n the n-th manager
    active_connections, \* websocket_manager.active_connections, a list
    seen,               \* per connected websocket client: the progress of the last
                        \* progress_update it received in this run, -1 when none
    heard,              \* per websocket client connected since before the start of
                        \* the run: the types of the events it received, in order
    nruns,              \* number of managers / run tasks created so far
    uploads,            \* number of accepted uploads so far
    pc,                 \* per run task: position in execute_concept_analysis_async
    todo,               \* per run task: callbacks left in the current straight-line segment
    mgr,                \* per run task: the manager whose analyze_clothing_concept it runs
    nreq,               \* per run task: len(human_requests) of the current iteration
    ri,                 \* per run task: index of the human request being processed
    pending_requests,   \* per run task: responses collected for the next iteration
    workflow_completed, \* per run task: data of the last WorkflowCompletedEvent
    approval_response,  \* per manager: self.approval_response
    approval_event,     \* per manager: self.approval_event ("none", "clear", "set")
    completed_steps,    \* per manager: self.completed_steps
    cur,                \* run task holding the event loop, 0 when none does
    last,               \* the operation that made the last step and its reply
    acked,              \* per run task: the response an accepted submit stored for the
                        \* request of the task that is at the approval gate
    resolved,           \* per run task: how each request of the run was resolved
    opened,             \* per run task: requests shown to the team and not yet answered
    raw,                \* input of the route_decision check
    routed,             \* result of route_decision on raw
    tried,              \* per run task: the failures of the attempts made so far by
                        \* the current call of _execute_workflow_with_retry
    slept,              \* per run task: the delays that call has slept
    consolidated_analysis, \* the responses the last fan-in received and the
                        \* components it consolidated them into
    stage_error,        \* per run task: the executor whose except clause has
                        \* handled a failure, "none" when none has
    cast,               \* per caller: its call of broadcast_message
    broken,             \* websocket clients whose connection is closed
    inbox,              \* per websocket client: the messages it received, in order
    published,          \* number of broadcast_message calls begun so far
    chat                \* per manager: the chat clients constructed for it and
                        \* those on which close was attempted

vars == <<status, progress, current_step, steps, outputs, approval_request, error,
          workflow_manager, active_connections, seen, heard, nruns, uploads, pc, todo,
          mgr, nreq, ri, pending_requests, workflow_completed, approval_response,
          approval_event, completed_steps, cur, last, acked, resolved, opened,
          raw, routed, tried, slept, consolidated_analysis, stage_error,
          cast, broken, inbox, published, chat>>

statusVars == <<status, progress, current_step, steps, outputs, approval_request, error>>
taskVars == <<pc, todo, mgr, nreq, ri, pending_requests, workflow_completed>>
mgrVars == <<approval_response, approval_event, completed_steps>>
ghostVars == <<acked, resolved, opened>>
normVars == <<raw, routed>>
retryVars == <<tried, slept>>
castVars == <<cast, broken, inbox, published>>
fanVars == <<consolidated_analysis, stage_error>>
resVars == <<chat>>

(***************************************************************************)
(* Strings.                                                                *)
(***************************************************************************)
None == <<"<None>">>
Whitespace == {" ", "\n", "\t"}

LowerChar(c) ==
    CASE c = "A" -> "a" [] c = "B" -> "b" [] c = "C" -> "c" [] c = "D" -> "d"
      [] c = "E" -> "e" [] c = "F" -> "f" [] c = "G" -> "g"
      [] c = "H" -> "h" [] c = "I" -> "i" [] c = "J" -> "j"
      [] c = "K" -> "k" [] c = "L" -> "l" [] c = "M" -> "m"
      [] c = "N" -> "n" [] c = "O" -> "o" [] c = "P" -> "p"
      [] c = "Q" -> "q" [] c = "R" -> "r" [] c = "S" -> "s"
      [] c = "T" -> "t" [] c = "U" -> "u" [] c = "V" -> "v"
      [] c = "W" -> "w" [] c = "X" -> "x" [] c = "Y" -> "y"
      [] c = "Z" -> "z" [] OTHER -> c

lower(s) == [i \in 1..Len(s) |-> LowerChar(s[i])]

UpperChar(c) ==
    CASE c = "a" -> "A" [] c = "b" -> "B" [] c = "c" -> "C" [] c = "d" -> "D"
      [] c = "e" -> "E" [] c = "f" -> "F" [] c = "g" -> "G"
      [] c = "h" -> "H" [] c = "i" -> "I" [] c = "j" -> "J"
      [] c = "k" -> "K" [] c = "l" -> "L" [] c = "m" -> "M"
      [] c = "n" -> "N" [] c = "o" -> "O" [] c = "p" -> "P"
      [] c = "q" -> "Q" [] c = "r" -> "R" [] c = "s" -> "S"
      [] c = "t" -> "T" [] c = "u" -> "U" [] c = "v" -> "V"
      [] c = "w" -> "W" [] c = "x" -> "X" [] c = "y" -> "Y"
      [] c = "z" -> "Z" [] OTHER -> c

upper(s) == [i \in 1..Len(s) |-> UpperChar(s[i])]

RECURSIVE lstrip(_)
lstrip(s) == IF s # <<>> /\ Head(s) \in Whitespace THEN lstrip(Tail(s)) ELSE s

RECURSIVE rstrip(_)
rstrip(s) ==
    IF s # <<>> /\ s[Len(s)] \in Whitespace THEN rstrip(SubSeq(s, 1, Len(s) - 1)) ELSE s

strip(s) == rstrip(lstrip(s))

S_yes == <<"y", "e", "s">>
S_y == <<"y">>
S_approve == <<"a", "p", "p", "r", "o", "v", "e">>
S_approved == <<"a", "p", "p", "r", "o", "v", "e", "d">>
S_no == <<"n", "o">>
S_needs_more_detail ==
    <<"n", "e", "e", "d", "s", " ", "m", "o", "r", "e", " ", "d", "e", "t", "a", "i", "l">>


(***************************************************************************)
(* core/approval.py: routing of the human response.                        *)
(***************************************************************************)
ApproveWords == {S_yes, S_y, S_approve, S_approved}
RejectWords == {S_no, <<"n">>, <<"r", "e", "j", "e", "c", "t">>,
                <<"r", "e", "j", "e", "c", "t", "e", "d">>,
                <<"d", "e", "n", "y">>, <<"d", "e", "n", "i", "e", "d">>}

\* response.data or ""
OrEmpty(data) == IF data = None THEN <<>> ELSE data

\* route_decision comparing the trimmed input without lower-casing it
route_decision_NoLower(data) ==
    [kind |-> "decision",
     approved |-> strip(OrEmpty(data)) \in ApproveWords,
     feedback |-> OrEmpty(data)]

\* ZavaConceptApprovalManager.route_decision: the ZavaApprovalDecision it sends
route_decision(data) ==
    [kind |-> "decision",
     approved |-> lower(strip(OrEmpty(data))) \in ApproveWords,
     feedback |-> OrEmpty(data)]

concept_approval_condition(decision) ==
    CASE decision.kind = "response" -> lower(strip(decision.feedback)) \in ApproveWords
      [] decision.kind = "str" -> strip(lower(decision.feedback)) \in ApproveWords
      [] decision.kind = "decision" -> decision.approved
      [] decision.kind = "request" -> FALSE
      [] OTHER -> FALSE

\* a rejection condition that reads the text of a ZavaApprovalDecision, as it
\* reads the text of a RequestResponse, not its approved field
concept_rejection_condition_ByText(decision) ==
    CASE decision.kind = "response" -> lower(strip(decision.feedback)) \in RejectWords
      [] decision.kind = "str" -> strip(lower(decision.feedback)) \in RejectWords
      [] decision.kind = "decision" -> lower(strip(decision.feedback)) \in RejectWords
      [] decision.kind = "request" -> FALSE
      [] OTHER -> TRUE

concept_rejection_condition(decision) ==
    CASE decision.kind = "response" -> lower(strip(decision.feedback)) \in RejectWords
      [] decision.kind = "str" -> strip(lower(decision.feedback)) \in RejectWords
      [] decision.kind = "decision" -> ~decision.approved
      [] decision.kind = "request" -> FALSE
      [] OTHER -> TRUE

\* The edges out of the approval manager (build_concept_evaluation_workflow):
\* the completion events the finalize handlers emit for one routed decision.
FinalizeEvents(decision) ==
    (IF concept_approval_condition(decision) THEN <<"APPROVED">> ELSE <<>>)
    \o (IF concept_rejection_condition(decision) THEN <<"REJECTED">> ELSE <<>>)

(***************************************************************************)
(* core/workflow_manager.py: tables of the controller.                     *)
(***************************************************************************)
P(name, v) == [k |-> "P", name |-> name, v |-> v]
O(name) == [k |-> "O", name |-> name, v |-> 0]
T(id) == [k |-> "T", name |-> id, v |-> 0]

\* self.workflow_steps: executor id -> (display name, progress percent)
TrackedExecutors ==
    <<"clothing_concept_parser", "concept_input_adapter", "concurrent_fashion_analysis",
      "concurrent_fashion_analysis_logger", "concept_report_writer_agent",
      "convert_report_to_approval_request", "zava_human_approver">>

workflow_steps(id) ==
    CASE id = "clothing_concept_parser" -> P("Parse Clothing Concept", 15)
      [] id = "concept_input_adapter" -> P("Prepare Fashion Analysis", 25)
      [] id = "concurrent_fashion_analysis" -> P("Concurrent Fashion Analysis", 50)
      [] id = "concurrent_fashion_analysis_logger" -> P("Generate Analysis Report", 60)
      [] id = "concept_report_writer_agent" -> P("Create Executive Report", 80)
      [] id = "convert_report_to_approval_request" -> P("Prepare Approval Request", 85)
      [] id = "zava_human_approver" -> P("Human Review", 90)

\* build_concept_evaluation_workflow followed by the start of
\* analyze_clothing_concept, up to the first workflow iteration: the UI
\* callbacks in program order.
BuildOps ==
    <<P("Building Zava concept workflow...", 5),
      P("Initializing AI agents...", 10),
      O("Initializing fresh Foundry clients"),
      O("Fresh AI chat clients initialized"),
      P("Creating fashion analysis agents...", 15),
      P("Creating concurrent fashion analysis workflow...", 20),
      P("Setting up concurrent subworkflow executor...", 22),
      P("Setting up approval workflow...", 25),
      P("Assembling workflow components...", 30),
      P("Zava concept workflow ready", 35),
      O("Workflow built successfully"),
      O("Generating workflow visualization..."),
      O("Mermaid diagram saved"),
      O("SVG visualization"),
      O("Telemetry"),
      P("Parse Clothing Concept", 15),
      O("Shared state")>>

\* Callbacks of the event loop of analyze_clothing_concept for the events of a
\* first iteration (run_stream): one executor event per tracked executor, then
\* k RequestInfoEvents.
RECURSIVE RequestOps(_)
RequestOps(k) ==
    IF k = 0 THEN <<>>
    ELSE <<P("Human Review", 90), O("Requesting Zava team approval")>> \o RequestOps(k - 1)

RunStreamOps(k) ==
    [i \in 1..Len(TrackedExecutors) |-> T(TrackedExecutors[i])] \o RequestOps(k)

\* The completion events of a second iteration (send_responses_streaming): each
\* response is routed by route_decision and finalized along the enabled edges.
RECURSIVE ResponseEvents(_)
ResponseEvents(responses) ==
    IF responses = <<>> THEN <<>>
    ELSE FinalizeEvents(route_decision(Head(responses))) \o ResponseEvents(Tail(responses))

RECURSIVE CompletedOps(_)
CompletedOps(evs) ==
    IF evs = <<>> THEN <<>>
    ELSE <<P("Save Results", 100), O("Concept analysis completed")>> \o CompletedOps(Tail(evs))

SendResponsesOps(responses) ==
    <<T("zava_human_approver")>> \o CompletedOps(ResponseEvents(responses))

\* send_approval_decision: the stored response
full_response(decision, feedback) ==
    IF strip(feedback) # <<>> THEN decision \o <<"\n">> \o strip(feedback) ELSE decision

\* _wait_for_approval_decision: self.approval_response or "no"
OrNo(response) == IF response = None \/ response = <<>> THEN S_no ELSE response

\* a timeout that defaults to approval
TimeoutDefault_Approve == S_yes

\* _wait_for_approval_decision on timeout
TimeoutDefault == S_no

\* sub in s, for strings
Contains(s, sub) ==
    \E i \in 0..(Len(s) - Len(sub)) : SubSeq(s, i + 1, i + Len(sub)) = sub

(***************************************************************************)
(* executors.py: log_fashion_analysis_outputs, the fan-in of the           *)
(* concurrent analysis.  A response is the output of one evaluator.        *)
(***************************************************************************)
MarketKeywords ==
    {<<"m", "a", "r", "k", "e", "t">>,
     <<"t", "r", "e", "n", "d">>,
     <<"c", "o", "n", "s", "u", "m", "e", "r">>,
     <<"d", "e", "m", "a", "n", "d">>,
     <<"d", "e", "m", "o", "g", "r", "a", "p", "h", "i", "c">>}
DesignKeywords ==
    {<<"d", "e", "s", "i", "g", "n">>,
     <<"a", "e", "s", "t", "h", "e", "t", "i", "c">>,
     <<"s", "t", "y", "l", "e">>,
     <<"c", "o", "l", "o", "r">>,
     <<"f", "a", "b", "r", "i", "c">>,
     <<"m", "a", "t", "e", "r", "i", "a", "l">>}
ProductionKeywords ==
    {<<"p", "r", "o", "d", "u", "c", "t", "i", "o", "n">>,
     <<"m", "a", "n", "u", "f", "a", "c", "t", "u", "r", "i", "n", "g">>,
     <<"c", "o", "s", "t">>,
     <<"s", "u", "p", "p", "l", "y">>,
     <<"l", "o", "g", "i", "s", "t", "i", "c", "s">>}
SustainabilityKeywords ==
    {<<"s", "u", "s", "t", "a", "i", "n", "a", "b", "i", "l", "i", "t", "y">>,
     <<"e", "t", "h", "i", "c", "a", "l">>,
     <<"e", "n", "v", "i", "r", "o", "n", "m", "e", "n", "t", "a", "l">>,
     <<"e", "c", "o">>}

AnyKeyword(keywords, content) == \E keyword \in keywords : Contains(lower(content), keyword)

\* a default name that does not depend on the position of the response
DefaultComponentNames_NoPosition ==
    <<"fashion_analysis_component", "fashion_analysis_component",
      "fashion_analysis_component">>

DefaultComponentNames ==
    <<"fashion_analysis_component_1", "fashion_analysis_component_2",
      "fashion_analysis_component_3">>

\* a classification that tests the production keywords before the design ones
component_name_ProductionFirst(content, i) ==
    IF AnyKeyword(MarketKeywords, content) THEN "market_trend_analysis"
    ELSE IF AnyKeyword(ProductionKeywords, content) THEN "production_feasibility"
    ELSE IF AnyKeyword(DesignKeywords, content) THEN "design_evaluation"
    ELSE IF AnyKeyword(SustainabilityKeywords, content) THEN "sustainability_assessment"
    ELSE DefaultComponentNames[i]

\* the key under which the i-th response is stored
component_name(content, i) ==
    IF AnyKeyword(MarketKeywords, content) THEN "market_trend_analysis"
    ELSE IF AnyKeyword(DesignKeywords, content) THEN "design_evaluation"
    ELSE IF AnyKeyword(ProductionKeywords, content) THEN "production_feasibility"
    ELSE IF AnyKeyword(SustainabilityKeywords, content) THEN "sustainability_assessment"
    ELSE DefaultComponentNames[i]

S_Analysis_completed_by ==
    <<"A", "n", "a", "l", "y", "s", "i", "s", " ", "c", "o", "m", "p", "l", "e", "t", "e", "d",
      " ", "b", "y", " ">>

\* the name under which the message of an evaluator reaches the fan-in: the id
\* the agent was created with
author_name(id) ==
    CASE id = "market" ->
           <<"f", "a", "s", "h", "i", "o", "n", "_", "m", "a", "r", "k", "e", "t", "_",
             "r", "e", "s", "e", "a", "r", "c", "h", "_", "a", "g", "e", "n", "t">>
      [] id = "design" ->
           <<"f", "a", "s", "h", "i", "o", "n", "_", "d", "e", "s", "i", "g", "n", "_",
             "e", "v", "a", "l", "u", "a", "t", "i", "o", "n", "_", "a", "g", "e", "n", "t">>
      [] OTHER ->
           <<"p", "r", "o", "d", "u", "c", "t", "i", "o", "n", "_", "f", "e", "a", "s", "i",
             "b", "i", "l", "i", "t", "y", "_", "a", "g", "e", "n", "t">>

\* the text extracted from a response: its output when that is not empty, and
\* otherwise, the response having an executor_id, a text made of that id
analysis_content(response) ==
    IF strip(response.output) # <<>> THEN strip(response.output)
    ELSE S_Analysis_completed_by \o author_name(response.executor_id)

\* consolidated_analysis["components"][name] = {...}: a dict assignment
PutComponent(components, name, response) ==
    {x \in components : x.name # name}
        \cup {[name |-> name, content |-> analysis_content(response),
               agent_id |-> response.executor_id]}

RECURSIVE Consolidate(_, _)
\* the components after the first n responses have been processed
Consolidate(responses, n) ==
    IF n = 0 THEN {}
    ELSE LET before == Consolidate(responses, n - 1)
             content == analysis_content(responses[n])
         IN IF content # <<>>
            THEN PutComponent(before, component_name(content, n), responses[n])
            ELSE before

log_fashion_analysis_outputs(responses) ==
    [received |-> responses, components |-> Consolidate(responses, Len(responses))]

NoAnalysis == [received |-> <<>>, components |-> {}]

\* outputs of the three evaluators
T_market == <<"S", "t", "r", "o", "n", "g", " ", "d", "e", "m", "a", "n", "d">>
T_design == <<"B", "o", "l", "d", " ", "s", "t", "y", "l", "e">>
T_production == <<"L", "o", "w", " ", "c", "o", "s", "t">>
T_production_fabric == <<"C", "o", "s", "t", " ", "o", "f", " ", "f", "a", "b", "r", "i", "c">>

Response(id, text) == [executor_id |-> id, output |-> text]

\* the responses of a concurrent analysis in which every evaluator answered
AllAnswered ==
    <<Response("market", T_market), Response("design", T_design),
      Response("production", T_production)>>

(***************************************************************************)
(* workflow_manager.py: _execute_workflow_with_retry.  The text of a       *)
(* failure is str(e).                                                      *)
(***************************************************************************)
max_retries == 3

S_rate_limit == <<"r", "a", "t", "e", " ", "l", "i", "m", "i", "t">>
S_try_again_in == <<"t", "r", "y", " ", "a", "g", "a", "i", "n", " ", "i", "n", " ">>
S_seconds == <<" ", "s", "e", "c", "o", "n", "d", "s">>
Digits == <<"0", "1", "2", "3", "4", "5", "6", "7", "8", "9">>

\* a test that takes every failure for a rate-limit failure
IsRateLimit_Always(error_str) == TRUE

\* "rate limit" in error_str.lower()
IsRateLimit(error_str) == Contains(lower(error_str), S_rate_limit)

RECURSIVE DigitRun(_, _)
\* the length of the longest run of digits of s that starts at position j
DigitRun(s, j) ==
    IF j <= Len(s) /\ s[j] \in {Digits[k] : k \in 1..Len(Digits)} THEN 1 + DigitRun(s, j + 1) ELSE 0

\* the pattern 'try again in (\d+) seconds' matches s at offset i
MatchAt(s, i) ==
    LET j == i + Len(S_try_again_in) + 1
        d == DigitRun(s, j)
    IN /\ j - 1 <= Len(s)
       /\ SubSeq(s, i + 1, j - 1) = S_try_again_in
       /\ d >= 1
       /\ j + d + Len(S_seconds) - 1 <= Len(s)
       /\ SubSeq(s, j + d, j + d + Len(S_seconds) - 1) = S_seconds

\* re.search(r'try again in (\d+) seconds', s): group 1 of the leftmost match,
\* None when there is none
wait_match(s) ==
    LET found == {i \in 0..Len(s) : MatchAt(s, i)} IN
      IF found = {} THEN None
      ELSE LET i == CHOOSE x \in found : \A y \in found : x <= y
               j == i + Len(S_try_again_in) + 1
           IN SubSeq(s, j, j + DigitRun(s, j) - 1)

RECURSIVE int(_)
\* int(digits)
int(digits) ==
    IF digits = <<>> THEN 0
    ELSE 10 * int(SubSeq(digits, 1, Len(digits) - 1))
         + (CHOOSE k \in 0..9 : Digits[k + 1] = digits[Len(digits)])

\* wait_seconds = int(wait_match.group(1)) if wait_match else 30
wait_seconds(error_str) ==
    LET m == wait_match(lower(error_str)) IN IF m # None THEN int(m) ELSE 30

\* a delay without the buffer
Backoff_NoBuffer(error_str) == wait_seconds(error_str)

\* the argument of asyncio.sleep
Backoff(error_str) == wait_seconds(error_str) + 2

\* the last attempt of a wrapper that would retry once more
LastAttempt_OneMore(attempt) == attempt >= max_retries

\* not (attempt < max_retries - 1)
LastAttempt(attempt) == attempt >= max_retries - 1

\* texts of failures of a stream
E_rate5 ==
    <<"R", "a", "t", "e", " ", "l", "i", "m", "i", "t", " ", "r", "e", "a",
      "c", "h", "e", "d", ".", " ", "T", "r", "y", " ", "a", "g", "a", "i",
      "n", " ", "i", "n", " ", "5", " ", "s", "e", "c", "o", "n", "d", "s",
      ".">>
E_rate12 ==
    <<"R", "a", "t", "e", " ", "l", "i", "m", "i", "t", " ", "r", "e", "a",
      "c", "h", "e", "d", ".", " ", "T", "r", "y", " ", "a", "g", "a", "i",
      "n", " ", "i", "n", " ", "1", "2", " ", "s", "e", "c", "o", "n", "d",
      "s", ".">>
E_rate ==
    <<"R", "a", "t", "e", " ", "l", "i", "m", "i", "t", " ", "e", "x", "c",
      "e", "e", "d", "e", "d">>
E_reset ==
    <<"C", "o", "n", "n", "e", "c", "t", "i", "o", "n", " ", "r", "e", "s",
      "e", "t">>
E_busy5 ==
    <<"S", "e", "r", "v", "e", "r", " ", "b", "u", "s", "y", ".", " ", "T",
      "r", "y", " ", "a", "g", "a", "i", "n", " ", "i", "n", " ", "5", " ",
      "s", "e", "c", "o", "n", "d", "s", ".">>

Failures == {E_rate5, E_rate12, E_rate, E_reset, E_busy5}

\* the responses that reach the fan-in when all evaluators have answered or
\* the answer of one of them is missing
FanInInputs ==
    {SelectSeq(<<Response("market", T_market), Response("design", T_design),
                 Response("production", text)>>,
               LAMBDA r : r.executor_id \notin missing) :
        missing \in {{}, {"market"}, {"design"}, {"production"}},
        text \in {T_production, T_production_fabric}}

(***************************************************************************)
(* backend.py: broadcast and the status object.                            *)
(***************************************************************************)
NoReq == <<0, 0>>

\* a caller that is not in broadcast_message
NoCall == [pc |-> "idle", msg |-> 0, idx |-> 0, conn |-> "-", disconnected |-> <<>>,
           present |-> {}, attempted |-> {}, stayed |-> {}]
NoData == "none"
\* self.chat_clients of a new manager: made counts the clients constructed
\* for the manager, listed those held by self.chat_clients, closed the ones
\* on which close was attempted
NoChat == [made |-> 0, listed |-> 0, closed |-> {}]

\* _initialize_chat_clients: n of the three clients are constructed; the list
\* is assigned only after the third
initialize_chat_clients(c, n) ==
    [c EXCEPT !.made = n, !.listed = IF n = 3 THEN 3 ELSE 0]

\* _cleanup_resources: close is attempted on every client of the list; the
\* except clause of the loop keeps the loop going when a close raises
cleanup_resources(c) == [c EXCEPT !.closed = 1..c.listed]
NotRouted == [kind |-> "none", approved |-> FALSE, feedback |-> <<>>]

Msg(type, p, n) == [type |-> type, progress |-> p, steps |-> n]

\* what a websocket client keeps of a delivered message: the last progress of
\* the run it is showing; a status_update with an empty stage log starts a run
Deliver(old, m) ==
    CASE m.type = "progress_update" -> m.progress
      [] m.type = "status_update" /\ m.steps = 0 -> -1
      [] OTHER -> old

\* what a client that is connected since before the start of the run keeps
\* of a delivered message: the type of the event, a run of progress and output
\* events kept as one entry, "progress" when the run holds a progress event
Hear(old, m) ==
    CASE old = <<"missed">> -> old
      [] m.type = "status_update" /\ m.steps = 0 -> <<>>
      [] m.type = "progress_update" ->
            IF old # <<>> /\ old[Len(old)] \in {"progress", "output"}
            THEN [old EXCEPT ![Len(old)] = "progress"] ELSE Append(old, "progress")
      [] m.type = "output_added" ->
            IF old # <<>> /\ old[Len(old)] \in {"progress", "output"}
            THEN old ELSE Append(old, "output")
      [] m.type \in {"approval_request", "workflow_completed"} -> Append(old, m.type)
      [] OTHER -> old

\* the last element of a list
Last(q) == q[Len(q)]

\* the elements of a list
Range(q) == {q[i] : i \in 1..Len(q)}

\* list.remove(x)
Remove(q, x) == SelectSeq(q, LAMBDA y : y # x)

\* ZavaWebSocketManager.broadcast_message
broadcast_message(conns, m) ==
    [s \in Clients |-> IF s \in Range(conns) THEN Deliver(seen[s], m) ELSE seen[s]]

\* ZavaWebSocketManager.broadcast_message, for the event log of the clients
hear_message(conns, m) ==
    [s \in Clients |-> IF s \in Range(conns) THEN Hear(heard[s], m) ELSE heard[s]]

\* submit_team_approval: decision_text
decision_text(decision) ==
    IF lower(decision) \in {S_yes, S_approve} THEN "APPROVED" ELSE "REJECTED"

\* a message has the "status" entry, the dump of the status object, of which
\* the model keeps the progress and the number of steps
HasStatus(m) == "progress" \in DOMAIN m

\* the error event built by the except clause of a request handler
ErrorOnly == [type |-> "error"]

\* the step of an operation that answers with code and text after it has
\* broadcast the message m: bare when m went to a client with no "status"
Sent(op, code, text, m) ==
    [op |-> op, code |-> code, text |-> text,
     bare |-> active_connections # <<>> /\ ~HasStatus(m)]

Reply(op, code, text) == [op |-> op, code |-> code, text |-> text, bare |-> FALSE]

(***************************************************************************)
(* Inputs.                                                                 *)
(***************************************************************************)
Decisions == {S_yes, S_no}
Feedbacks == {<<>>, S_needs_more_detail}

Alphabet == {"y", "Y", "e", "s", " ", "n"}

RECURSIVE StringsUpTo(_)
StringsUpTo(n) ==
    IF n = 0 THEN {<<>>}
    ELSE LET shorter == StringsUpTo(n - 1)
         IN shorter \cup {Append(w, c) : w \in {x \in shorter : Len(x) = n - 1}, c \in Alphabet}

RawInputs ==
    StringsUpTo(MaxInputLen)
    \cup {None, S_approve, S_approved, upper(S_approve), <<" ">> \o upper(S_approved) \o <<"\n">>,
          S_approve \o <<"s">>, S_yes \o <<"\n", "o", "k">>, <<"\t">> \o S_yes \o <<" ", " ">>,
          <<"a", "p", "p", "r", "o", "v">>, S_no}

(***************************************************************************)
(* Initial state: the module-level state of backend.py after import.       *)
(***************************************************************************)
InitBackend ==
    /\ status = "ready"
    /\ progress = 0
    /\ current_step = "Ready to analyze clothing concepts"
    /\ steps = 0
    /\ outputs = 0
    /\ approval_request = NoReq
    /\ error = "none"
    /\ workflow_manager = 0
    /\ active_connections = <<>>
    /\ seen = [s \in Clients |-> -1]
    /\ heard = [s \in Clients |-> <<>>]
    /\ nruns = 0
    /\ uploads = 0
    /\ pc = [t \in Runs |-> "idle"]
    /\ todo = [t \in Runs |-> <<>>]
    /\ mgr = [t \in Runs |-> 0]
    /\ nreq = [t \in Runs |-> 0]
    /\ ri = [t \in Runs |-> 0]
    /\ pending_requests = [t \in Runs |-> <<>>]
    /\ workflow_completed = [t \in Runs |-> NoData]
    /\ approval_response = [m \in Runs |-> None]
    /\ approval_event = [m \in Runs |-> "none"]
    /\ completed_steps = [m \in Runs |-> {}]
    /\ cur = 0
    /\ last = Reply("init", 0, "-")
    /\ acked = [t \in Runs |-> None]
    /\ resolved = [t \in Runs |-> <<>>]
    /\ opened = [t \in Runs |-> {}]
    /\ tried = [t \in Runs |-> <<>>]
    /\ slept = [t \in Runs |-> <<>>]
    /\ consolidated_analysis = NoAnalysis
    /\ stage_error = [t \in Runs |-> "none"]
    /\ cast = [c \in Callers |-> NoCall]
    /\ broken = {}
    /\ inbox = [s \in Clients |-> <<>>]
    /\ published = 0
    /\ chat = [m \in Runs |-> NoChat]

Init ==
    /\ InitBackend
    /\ raw = None
    /\ routed = NotRouted

(***************************************************************************)
(* backend.py: request handlers.  A handler runs when no run task holds    *)
(* the event loop.                                                         *)
(***************************************************************************)

\* websocket_endpoint: connect, then the current status is sent to the client
Connect(s) ==
    /\ cur = 0
    /\ s \notin Range(active_connections)
    /\ s \notin broken
    /\ active_connections' = Append(active_connections, s)
    /\ seen' = [seen EXCEPT ![s] = -1]
    /\ heard' = [heard EXCEPT ![s] = IF nruns = 0 THEN <<>> ELSE <<"missed">>]
    /\ last' = Reply("connect", 0, "-")
    /\ UNCHANGED <<statusVars, workflow_manager, nruns, uploads, taskVars, mgrVars, cur,
                   ghostVars, normVars, retryVars, castVars, fanVars, resVars>>

\* websocket_endpoint: WebSocketDisconnect, then ZavaWebSocketManager.disconnect
Disconnect(s) ==
    /\ cur = 0
    /\ s \in Range(active_connections)
    /\ active_connections' = Remove(active_connections, s)
    /\ seen' = [seen EXCEPT ![s] = -1]
    /\ heard' = [heard EXCEPT ![s] = <<"missed">>]
    /\ last' = Reply("disconnect", 0, "-")
    /\ UNCHANGED <<statusVars, workflow_manager, nruns, uploads, taskVars, mgrVars, cur,
                   ghostVars, normVars, retryVars, castVars, fanVars, resVars>>

\* upload_clothing_concept with a .pptx file name
UploadValid ==
    /\ cur = 0
    /\ uploads < MaxUploads
    /\ uploads' = uploads + 1
    /\ status' = "concept_uploaded"
    /\ current_step' = "Clothing concept uploaded"
    /\ outputs' = outputs + 1
    /\ seen' = broadcast_message(active_connections, Msg("status_update", progress, steps))
    /\ heard' = hear_message(active_connections, Msg("status_update", progress, steps))
    /\ last' = Reply("upload", 200, "-")
    /\ UNCHANGED <<progress, steps, approval_request, error, workflow_manager,
                   active_connections, nruns, taskVars, mgrVars, cur, ghostVars, normVars, retryVars, castVars, fanVars, resVars>>

\* upload_clothing_concept with another file name: the HTTPException raised by
\* the validation is caught by the handler's own except clause
UploadInvalid ==
    /\ cur = 0
    /\ status' = "error"
    /\ error' = "Failed to upload clothing concept"
    /\ seen' = broadcast_message(active_connections, ErrorOnly)
    /\ heard' = hear_message(active_connections, ErrorOnly)
    /\ last' = Sent("upload", 500, "-", ErrorOnly)
    /\ UNCHANGED <<progress, current_step, steps, outputs, approval_request,
                   workflow_manager, active_connections, nruns, uploads, taskVars, mgrVars,
                   cur, ghostVars, normVars, retryVars, castVars, fanVars, resVars>>

\* start_concept_analysis while status is "running": the HTTPException is
\* caught by the handler's own except clause
StartRejected ==
    /\ cur = 0
    /\ status = "running"
    /\ status' = "error"
    /\ error' = "Failed to start concept analysis"
    /\ seen' = broadcast_message(active_connections, ErrorOnly)
    /\ heard' = hear_message(active_connections, ErrorOnly)
    /\ last' = Sent("start", 500, "-", ErrorOnly)
    /\ UNCHANGED <<progress, current_step, steps, outputs, approval_request,
                   workflow_manager, active_connections, nruns, uploads, taskVars, mgrVars,
                   cur, ghostVars, normVars, retryVars, castVars, fanVars, resVars>>

\* a start that keeps the outputs of the previous run
StartAccepted_KeepsOutputs ==
    /\ cur = 0
    /\ status # "running"
    /\ nruns < MaxRuns
    /\ LET n == nruns + 1 IN
        /\ nruns' = n
        /\ workflow_manager' = n
        /\ approval_response' = [approval_response EXCEPT ![n] = None]
        /\ approval_event' = [approval_event EXCEPT ![n] = "none"]
        /\ completed_steps' = [completed_steps EXCEPT ![n] = {}]
        /\ pc' = [pc EXCEPT ![n] = "launched"]
    /\ status' = "running"
    /\ progress' = 0
    /\ current_step' = "Initializing fashion analysis workflow..."
    /\ steps' = 0
    /\ error' = "none"
    /\ approval_request' = NoReq
    /\ seen' = broadcast_message(active_connections, Msg("status_update", 0, 0))
    /\ heard' = hear_message(active_connections, Msg("status_update", 0, 0))
    /\ last' = Reply("start", 200, "-")
    /\ UNCHANGED <<outputs, active_connections, uploads, todo, mgr, nreq, ri, pending_requests,
                   workflow_completed, cur, ghostVars, normVars, retryVars, castVars, fanVars, resVars>>

\* start_concept_analysis in any other status: new manager, reset, new task
StartAccepted ==
    /\ cur = 0
    /\ status # "running"
    /\ nruns < MaxRuns
    /\ LET n == nruns + 1 IN
        /\ nruns' = n
        /\ workflow_manager' = n
        /\ approval_response' = [approval_response EXCEPT ![n] = None]
        /\ approval_event' = [approval_event EXCEPT ![n] = "none"]
        /\ completed_steps' = [completed_steps EXCEPT ![n] = {}]
        /\ pc' = [pc EXCEPT ![n] = "launched"]
    /\ status' = "running"
    /\ progress' = 0
    /\ current_step' = "Initializing fashion analysis workflow..."
    /\ steps' = 0
    /\ outputs' = 0
    /\ error' = "none"
    /\ approval_request' = NoReq
    /\ seen' = broadcast_message(active_connections, Msg("status_update", 0, 0))
    /\ heard' = hear_message(active_connections, Msg("status_update", 0, 0))
    /\ last' = Reply("start", 200, "-")
    /\ UNCHANGED <<active_connections, uploads, todo, mgr, nreq, ri, pending_requests,
                   workflow_completed, cur, ghostVars, normVars, retryVars, castVars, fanVars, resVars>>

start_concept_analysis == StartRejected \/ StartAccepted

\* the request req is the one its run task is processing at the approval gate
AtGate(req) ==
    /\ pc[req[1]] \in {"enter_wait", "waiting", "decided"}
    /\ ri[req[1]] = req[2]

\* a rejected submit whose except clause marks the run failed, as the except
\* clauses of upload and start do
SubmitRejected_SetsError(decision, feedback) ==
    /\ cur = 0
    /\ workflow_manager = 0 \/ status # "waiting_approval"
    /\ status' = "error"
    /\ error' = "Failed to process approval"
    /\ seen' = broadcast_message(active_connections, ErrorOnly)
    /\ heard' = hear_message(active_connections, ErrorOnly)
    /\ last' = Sent("submit", 500, "-", ErrorOnly)
    /\ UNCHANGED <<progress, current_step, steps, outputs, approval_request,
                   workflow_manager, active_connections, nruns, uploads,
                   taskVars, mgrVars, cur, ghostVars, normVars, retryVars, castVars, fanVars, resVars>>

\* submit_team_approval without a manager or outside waiting_approval
SubmitRejected(decision, feedback) ==
    /\ cur = 0
    /\ workflow_manager = 0 \/ status # "waiting_approval"
    /\ seen' = broadcast_message(active_connections, ErrorOnly)
    /\ heard' = hear_message(active_connections, ErrorOnly)
    /\ last' = Sent("submit", 500, "-", ErrorOnly)
    /\ UNCHANGED <<statusVars, workflow_manager, active_connections, nruns, uploads,
                   taskVars, mgrVars, cur, ghostVars, normVars, retryVars, castVars, fanVars, resVars>>

\* submit_team_approval while waiting_approval: send_approval_decision on the
\* current manager, then the status update
SubmitAccepted(decision, feedback) ==
    /\ cur = 0
    /\ workflow_manager # 0
    /\ status = "waiting_approval"
    /\ LET m == workflow_manager
           r == full_response(decision, feedback) IN
        /\ approval_response' = [approval_response EXCEPT ![m] = r]
        /\ approval_event' =
              [approval_event EXCEPT ![m] = IF @ = "none" THEN "none" ELSE "set"]
        /\ acked' = IF approval_request # NoReq /\ AtGate(approval_request)
                    THEN [acked EXCEPT ![approval_request[1]] = r] ELSE acked
    /\ status' = "running"
    /\ approval_request' = NoReq
    /\ current_step' = "Processing team decision"
    /\ outputs' = outputs + 1
    /\ seen' = broadcast_message(active_connections, Msg("status_update", progress, steps))
    /\ heard' = hear_message(active_connections, Msg("status_update", progress, steps))
    /\ last' = Reply("submit", 200, decision_text(decision))
    /\ UNCHANGED <<progress, steps, error, workflow_manager, active_connections, nruns,
                   uploads, taskVars, completed_steps, cur, resolved, opened, normVars, retryVars, castVars, fanVars, resVars>>

submit_team_approval ==
    \E d \in Decisions, f \in Feedbacks : SubmitRejected(d, f) \/ SubmitAccepted(d, f)

\* a status query that drops the pending approval request
get_analysis_status_Clears ==
    /\ cur = 0
    /\ approval_request' = NoReq
    /\ last' = Reply("status", 200, status)
    /\ UNCHANGED <<status, progress, current_step, steps, outputs, error, workflow_manager,
                   active_connections, seen, heard, nruns, uploads, taskVars, mgrVars, cur,
                   ghostVars, normVars, retryVars, castVars, fanVars, resVars>>

\* get_analysis_status: return current_analysis_status.model_dump()
get_analysis_status ==
    /\ cur = 0
    /\ last' = Reply("status", 200, status)
    /\ UNCHANGED <<statusVars, workflow_manager, active_connections, seen, heard, nruns,
                   uploads, taskVars, mgrVars, cur, ghostVars, normVars, retryVars,
                   castVars, fanVars, resVars>>

(***************************************************************************)
(* The run task: execute_concept_analysis_async and, inside it,            *)
(* ZavaConceptWorkflowManager.analyze_clothing_concept.                    *)
(***************************************************************************)

\* positions at which the task is suspended on something else than a websocket
Yields == {"stream", "waiting", "cleanup", "done"}

\* the task keeps the event loop unless it suspends
Holder(t, nextpc, didBroadcast) ==
    IF nextpc \in Yields \/ (didBroadcast /\ active_connections # <<>>) THEN 0 ELSE t

\* where the controller goes when the callbacks of a segment are done
AfterSegment(t, completed) ==
    CASE pc[t] = "build" -> "stream"
      [] pc[t] = "events" ->
            IF completed # NoData THEN "cleanup"
            ELSE IF nreq[t] > 0 THEN "approval_cb" ELSE "stream"
      [] pc[t] = "decided" ->
            IF ri[t] < nreq[t] THEN "approval_cb" ELSE "stream"

\* the task starts to run: it reads the global workflow_manager and enters
\* analyze_clothing_concept
TaskBegin(t) ==
    /\ cur = 0
    /\ pc[t] = "launched"
    /\ mgr' = [mgr EXCEPT ![t] = workflow_manager]
    /\ todo' = [todo EXCEPT ![t] = BuildOps]
    /\ pc' = [pc EXCEPT ![t] = "build"]
    /\ cur' = t
    /\ last' = Reply("task", t, "begin")
    /\ UNCHANGED <<statusVars, workflow_manager, active_connections, seen, heard, nruns, uploads,
                   nreq, ri, pending_requests, workflow_completed, mgrVars, ghostVars,
                   normVars, retryVars, castVars, fanVars, resVars>>

\* one UI callback of the current segment: update_analysis_progress,
\* add_analysis_output, or _track_workflow_progress for an executor event
Callback(t) ==
    /\ cur \in {0, t}
    /\ pc[t] \in {"build", "events", "decided"}
    /\ todo[t] # <<>>
    /\ LET op == Head(todo[t])
           m == mgr[t]
           tracked == op.k = "T" /\ op.name \notin completed_steps[m]
           eff == IF tracked THEN workflow_steps(op.name) ELSE op
           rest == Tail(todo[t])
           nextpc == IF rest = <<>> THEN AfterSegment(t, workflow_completed[t]) ELSE pc[t]
       IN
        /\ completed_steps' =
              IF tracked THEN [completed_steps EXCEPT ![m] = @ \cup {op.name}]
              ELSE completed_steps
        /\ CASE eff.k = "P" ->
                  /\ current_step' = eff.name
                  /\ progress' = eff.v
                  /\ steps' = steps + 1
                  /\ seen' = broadcast_message(active_connections,
                                               Msg("progress_update", eff.v, steps + 1))
                  /\ heard' = hear_message(active_connections,
                                           Msg("progress_update", eff.v, steps + 1))
                  /\ UNCHANGED outputs
             [] eff.k = "O" ->
                  /\ outputs' = outputs + 1
                  /\ seen' = broadcast_message(active_connections,
                                               Msg("output_added", progress, steps))
                  /\ heard' = hear_message(active_connections,
                                           Msg("output_added", progress, steps))
                  /\ UNCHANGED <<current_step, progress, steps>>
             [] OTHER -> UNCHANGED <<current_step, progress, steps, outputs, seen, heard>>
        /\ todo' = [todo EXCEPT ![t] = rest]
        /\ pc' = [pc EXCEPT ![t] = nextpc]
        /\ ri' = [ri EXCEPT ![t] = IF pc[t] = "decided" /\ nextpc = "approval_cb"
                                   THEN @ + 1 ELSE @]
        /\ acked' = IF pc[t] = "decided" /\ nextpc # "decided"
                    THEN [acked EXCEPT ![t] = None] ELSE acked
        /\ tried' = IF nextpc = "stream" THEN [tried EXCEPT ![t] = <<>>] ELSE tried
        /\ slept' = IF nextpc = "stream" THEN [slept EXCEPT ![t] = <<>>] ELSE slept
        /\ chat' = IF op = O("Fresh AI chat clients initialized")
                    THEN [chat EXCEPT ![m] = initialize_chat_clients(@, 3)] ELSE chat
        /\ cur' = Holder(t, nextpc, eff.k # "T")
        /\ last' = Reply("task", t, eff.k)
    /\ UNCHANGED <<status, approval_request, error, workflow_manager, active_connections,
                   nruns, uploads, mgr, nreq, pending_requests, workflow_completed,
                   approval_response, approval_event, resolved, opened, normVars,
                   castVars, fanVars>>

\* a first iteration ends: run_stream has yielded its events, k of them
\* RequestInfoEvents; the fan-in of the concurrent analysis has run on
\* responses; stage is the executor in which an exception was raised and
\* caught by the executor's except clause, which sends an error text on to the
\* next executor instead of its result
RunStreamIn(t, k, responses, stage) ==
    /\ cur = 0
    /\ pc[t] = "stream"
    /\ pending_requests[t] = <<>>
    /\ consolidated_analysis' =
          IF stage = "concurrent_fashion_analysis_logger" THEN NoAnalysis
          ELSE log_fashion_analysis_outputs(responses)
    /\ stage_error' = IF stage = "none" THEN stage_error
                      ELSE [stage_error EXCEPT ![t] = stage]
    /\ todo' = [todo EXCEPT ![t] = RunStreamOps(k)]
    /\ resolved' = [resolved EXCEPT ![t] = <<>>]
    /\ nreq' = [nreq EXCEPT ![t] = k]
    /\ ri' = [ri EXCEPT ![t] = 1]
    /\ pc' = [pc EXCEPT ![t] = "events"]
    /\ cur' = t
    /\ last' = Reply("task", t, "run_stream")
    /\ UNCHANGED <<statusVars, workflow_manager, active_connections, seen, heard, nruns, uploads,
                   mgr, pending_requests, workflow_completed, mgrVars, acked, opened,
                   normVars, retryVars, castVars, resVars>>

\* a first iteration in which no executor caught a failure
RunStreamOf(t, k, responses) == RunStreamIn(t, k, responses, "none")

\* a first iteration in which every evaluator answered
RunStream(t, k) == RunStreamOf(t, k, AllAnswered)

\* the executor that finalizes a routed decision
FinalizeStage(decision) ==
    IF concept_approval_condition(decision) THEN "save_approved_concept_report"
    ELSE "draft_concept_rejection_email"

\* a later iteration ends: send_responses_streaming has routed the responses;
\* when fails, the finalizing executor of the last response has caught a
\* failure and sent "ERROR: ..." to its handler, which emits the completion
SendResponsesIn(t, fails) ==
    /\ cur = 0
    /\ pc[t] = "stream"
    /\ pending_requests[t] # <<>>
    /\ stage_error' =
          IF fails
          THEN [stage_error EXCEPT
                  ![t] = FinalizeStage(route_decision(Last(pending_requests[t])))]
          ELSE stage_error
    /\ LET evs == ResponseEvents(pending_requests[t]) IN
        /\ todo' = [todo EXCEPT ![t] = SendResponsesOps(pending_requests[t])]
        /\ workflow_completed' =
              [workflow_completed EXCEPT ![t] = IF evs = <<>> THEN @ ELSE evs[Len(evs)]]
    /\ nreq' = [nreq EXCEPT ![t] = 0]
    /\ pending_requests' = [pending_requests EXCEPT ![t] = <<>>]
    /\ pc' = [pc EXCEPT ![t] = "events"]
    /\ cur' = t
    /\ last' = Reply("task", t, "send_responses")
    /\ UNCHANGED <<statusVars, workflow_manager, active_connections, seen, heard, nruns, uploads,
                   mgr, ri, mgrVars, ghostVars, normVars, retryVars, castVars,
                   consolidated_analysis, resVars>>

\* a later iteration in which no executor caught a failure
SendResponses(t) == SendResponsesIn(t, FALSE)

\* a controller that shows every request of the iteration before it waits
AfterApprovalCallback_ShowAll(t) == IF ri[t] < nreq[t] THEN "approval_cb" ELSE "enter_wait"

\* position after the approval callback: the wait for this request
AfterApprovalCallback(t) == "enter_wait"

\* self.approval_callback(question, context), which is request_team_approval
ApprovalCallback(t) ==
    /\ cur \in {0, t}
    /\ pc[t] = "approval_cb"
    /\ status' = "waiting_approval"
    /\ approval_request' = <<t, ri[t]>>
    /\ seen' = broadcast_message(active_connections, Msg("approval_request", progress, steps))
    /\ heard' = hear_message(active_connections, Msg("approval_request", progress, steps))
    /\ opened' = [opened EXCEPT ![t] = @ \cup {ri[t]}]
    /\ pc' = [pc EXCEPT ![t] = AfterApprovalCallback(t)]
    /\ ri' = [ri EXCEPT ![t] = IF AfterApprovalCallback(t) = "approval_cb" THEN @ + 1 ELSE @]
    /\ cur' = Holder(t, AfterApprovalCallback(t), TRUE)
    /\ last' = Reply("task", t, "approval_request")
    /\ UNCHANGED <<progress, current_step, steps, outputs, error, workflow_manager,
                   active_connections, nruns, uploads, todo, mgr, nreq,
                   pending_requests, workflow_completed, mgrVars, acked, resolved,
                   normVars, retryVars, castVars, fanVars, resVars>>

\* _wait_for_approval_decision up to the await: new event, response cleared
EnterWait(t) ==
    /\ cur \in {0, t}
    /\ pc[t] = "enter_wait"
    /\ approval_event' = [approval_event EXCEPT ![mgr[t]] = "clear"]
    /\ approval_response' = [approval_response EXCEPT ![mgr[t]] = None]
    /\ pc' = [pc EXCEPT ![t] = "waiting"]
    /\ cur' = 0
    /\ last' = Reply("task", t, "enter_wait")
    /\ UNCHANGED <<statusVars, workflow_manager, active_connections, seen, heard, nruns, uploads,
                   todo, mgr, nreq, ri, pending_requests, workflow_completed,
                   completed_steps, ghostVars, normVars, retryVars, castVars, fanVars, resVars>>

\* the response the wait returns when the event was set
WaitResult(m) == OrNo(approval_response[m])

\* _wait_for_approval_decision returns because the event was set; the response
\* is stored in pending_requests
WaitReturn(t) ==
    /\ cur = 0
    /\ pc[t] = "waiting"
    /\ approval_event[mgr[t]] = "set"
    /\ pending_requests' = [pending_requests EXCEPT ![t] = Append(@, WaitResult(mgr[t]))]
    /\ opened' = [opened EXCEPT ![t] = @ \ {ri[t]}]
    /\ resolved' = [resolved EXCEPT ![t] = Append(@, "decision")]
    /\ todo' = [todo EXCEPT ![t] = <<O("Human Decision")>>]
    /\ pc' = [pc EXCEPT ![t] = "decided"]
    /\ cur' = t
    /\ last' = Reply("task", t, "decision")
    /\ UNCHANGED <<statusVars, workflow_manager, active_connections, seen, heard, nruns, uploads,
                   mgr, nreq, ri, workflow_completed, mgrVars, acked, normVars, retryVars, castVars, fanVars, resVars>>

\* _wait_for_approval_decision returns because of asyncio.TimeoutError
WaitTimeout(t) ==
    /\ cur = 0
    /\ pc[t] = "waiting"
    /\ approval_event[mgr[t]] = "clear"
    /\ outputs' = outputs + 1
    /\ seen' = broadcast_message(active_connections, Msg("output_added", progress, steps))
    /\ heard' = hear_message(active_connections, Msg("output_added", progress, steps))
    /\ pending_requests' = [pending_requests EXCEPT ![t] = Append(@, TimeoutDefault)]
    /\ resolved' = [resolved EXCEPT ![t] = Append(@, "timeout")]
    /\ opened' = [opened EXCEPT ![t] = @ \ {ri[t]}]
    /\ todo' = [todo EXCEPT ![t] = <<O("Human Decision")>>]
    /\ pc' = [pc EXCEPT ![t] = "decided"]
    /\ cur' = Holder(t, "decided", TRUE)
    /\ last' = Reply("task", t, "timeout")
    /\ UNCHANGED <<status, progress, current_step, steps, approval_request, error,
                   workflow_manager, active_connections, nruns, uploads, mgr, nreq, ri,
                   workflow_completed, mgrVars, acked, normVars, retryVars, castVars, fanVars, resVars>>

\* a run task that ends without the workflow_completed broadcast
Complete_Silent(t) ==
    /\ cur = 0
    /\ pc[t] = "cleanup"
    /\ status' = "completed"
    /\ progress' = 100
    /\ current_step' = "Analysis completed"
    /\ chat' = [chat EXCEPT ![mgr[t]] = cleanup_resources(@)]
    /\ pc' = [pc EXCEPT ![t] = "done"]
    /\ last' = Reply("complete", t, workflow_completed[t])
    /\ UNCHANGED <<seen, heard, steps, outputs, approval_request, error, workflow_manager,
                   active_connections, nruns, uploads, todo, mgr, nreq, ri,
                   pending_requests, workflow_completed, mgrVars, cur, ghostVars, normVars, retryVars, castVars, fanVars>>

\* _cleanup_resources: the close of the next client of the list raises; the
\* except clause of the loop emits the warning output and the loop goes on
CloseFails(t) ==
    /\ cur = 0
    /\ pc[t] = "cleanup"
    /\ Cardinality(chat[mgr[t]].closed) < chat[mgr[t]].listed
    /\ chat' = [chat EXCEPT ![mgr[t]].closed = 1..(Cardinality(@) + 1)]
    /\ outputs' = outputs + 1
    /\ seen' = broadcast_message(active_connections, Msg("output_added", progress, steps))
    /\ heard' = hear_message(active_connections, Msg("output_added", progress, steps))
    /\ last' = Reply("task", t, "close_failed")
    /\ UNCHANGED <<status, progress, current_step, steps, approval_request, error,
                   workflow_manager, active_connections, nruns, uploads, taskVars, mgrVars,
                   cur, ghostVars, normVars, retryVars, castVars, fanVars>>

\* the closes left succeed, analyze_clothing_concept returns after
\* _cleanup_resources, and the task publishes the completion
Complete(t) ==
    /\ cur = 0
    /\ pc[t] = "cleanup"
    /\ status' = "completed"
    /\ progress' = 100
    /\ current_step' = "Analysis completed"
    /\ seen' = broadcast_message(active_connections, Msg("workflow_completed", 100, steps))
    /\ heard' = hear_message(active_connections, Msg("workflow_completed", 100, steps))
    /\ chat' = [chat EXCEPT ![mgr[t]] = cleanup_resources(@)]
    /\ pc' = [pc EXCEPT ![t] = "done"]
    /\ last' = Reply("complete", t, workflow_completed[t])
    /\ UNCHANGED <<steps, outputs, approval_request, error, workflow_manager,
                   active_connections, nruns, uploads, todo, mgr, nreq, ri,
                   pending_requests, workflow_completed, mgrVars, cur, ghostVars, normVars, retryVars, castVars, fanVars>>

\* the first start request of the process
StartFirst == nruns = 0 /\ StartAccepted

RunTask ==
    \/ \E t \in Runs : TaskBegin(t)
    \/ \E t \in Runs : Callback(t)
    \/ \E t \in Runs : SendResponses(t)
    \/ \E t \in Runs : ApprovalCallback(t)
    \/ \E t \in Runs : EnterWait(t)
    \/ \E t \in Runs : WaitReturn(t)
    \/ \E t \in Runs : WaitTimeout(t)
    \/ \E t \in Runs : Complete(t)

(***************************************************************************)
(* Spec: the request handlers and up to MaxRuns run tasks of the workflow  *)
(* as built (one RequestInfoExecutor, so one RequestInfoEvent in a first   *)
(* iteration), with no websocket client connected, so that                 *)
(* broadcast_message never suspends.                                       *)
(***************************************************************************)
Next ==
    \/ UploadValid
    \/ UploadInvalid
    \/ start_concept_analysis
    \/ submit_team_approval
    \/ \E t \in Runs : RunStream(t, 1)
    \/ RunTask

Spec == Init /\ [][Next]_vars

(***************************************************************************)
(* SpecUI: the first run of the process, observed by websocket clients     *)
(* that connect and disconnect at any time; every broadcast to a connected *)
(* client is a suspension point of the run task.  A first iteration yields *)
(* up to MaxRequests RequestInfoEvents.                                    *)
(***************************************************************************)
NextUI ==
    \/ \E s \in Subs : Connect(s)
    \/ \E s \in Subs : Disconnect(s)
    \/ UploadValid
    \/ UploadInvalid
    \/ StartRejected
    \/ StartFirst
    \/ submit_team_approval
    \/ \E t \in Runs, k \in 1..MaxRequests : RunStream(t, k)
    \/ RunTask

SpecUI == Init /\ [][NextUI]_vars

(***************************************************************************)
(* Failures of a stream: _execute_workflow_with_retry, the except clause   *)
(* of analyze_clothing_concept and the except clause of                    *)
(* execute_concept_analysis_async.                                         *)
(***************************************************************************)

\* a retry that always begins the run again with run_stream
last_stream_params_Initial(t) == <<>>

\* self._last_stream_params, set when the iteration began: the pending
\* responses of the iteration, empty when it began with run_stream
last_stream_params(t) == pending_requests[t]

\* an attempt fails with a rate-limit failure and is not the last one: the
\* warning output, the sleep, and a fresh stream for the next attempt
StreamRetry(t, e) ==
    /\ cur = 0
    /\ pc[t] = "stream"
    /\ IsRateLimit(e)
    /\ ~LastAttempt(Len(tried[t]))
    /\ pending_requests' = [pending_requests EXCEPT ![t] = last_stream_params(t)]
    /\ tried' = [tried EXCEPT ![t] = Append(@, e)]
    /\ slept' = [slept EXCEPT ![t] = Append(@, Backoff(e))]
    /\ outputs' = outputs + 1
    /\ seen' = broadcast_message(active_connections, Msg("output_added", progress, steps))
    /\ heard' = hear_message(active_connections, Msg("output_added", progress, steps))
    /\ last' = Reply("task", t, "retry")
    /\ UNCHANGED <<status, progress, current_step, steps, approval_request, error,
                   workflow_manager, active_connections, nruns, uploads, pc, todo, mgr,
                   nreq, ri, workflow_completed, mgrVars,
                   cur, ghostVars, normVars, castVars, fanVars, resVars>>

\* an attempt fails and the failure leaves the wrapper: at once when it is not
\* a rate-limit failure, after the error output when it is one on the last
\* attempt
StreamRaise(t, e) ==
    /\ cur = 0
    /\ pc[t] = "stream"
    /\ IsRateLimit(e) => LastAttempt(Len(tried[t]))
    /\ tried' = [tried EXCEPT ![t] = Append(@, e)]
    /\ IF IsRateLimit(e)
       THEN /\ outputs' = outputs + 1
            /\ seen' = broadcast_message(active_connections,
                                         Msg("output_added", progress, steps))
            /\ heard' = hear_message(active_connections,
                                     Msg("output_added", progress, steps))
       ELSE UNCHANGED <<outputs, seen, heard>>
    /\ pc' = [pc EXCEPT ![t] = "raised"]
    /\ cur' = Holder(t, "raised", IsRateLimit(e))
    /\ last' = Reply("task", t, "raise")
    /\ UNCHANGED <<status, progress, current_step, steps, approval_request, error,
                   workflow_manager, active_connections, nruns, uploads, todo, mgr, nreq, ri,
                   pending_requests, workflow_completed, mgrVars, ghostVars, normVars,
                   slept, castVars, fanVars, resVars>>

\* the except clause of analyze_clothing_concept: _handle_error, which is
\* handle_workflow_error, then raise; the finally clause awaits the cleanup
HandleError(t) ==
    /\ cur \in {0, t}
    /\ pc[t] = "raised"
    /\ status' = "error"
    /\ error' = "Clothing concept analysis failed"
    /\ seen' = broadcast_message(active_connections, Msg("error", progress, steps))
    /\ heard' = hear_message(active_connections, Msg("error", progress, steps))
    /\ chat' = [chat EXCEPT ![mgr[t]] = cleanup_resources(@)]
    /\ pc' = [pc EXCEPT ![t] = "failing"]
    /\ cur' = 0
    /\ last' = Reply("task", t, "handle_error")
    /\ UNCHANGED <<progress, current_step, steps, outputs, approval_request,
                   workflow_manager, active_connections, nruns, uploads, todo, mgr, nreq, ri,
                   pending_requests, workflow_completed, mgrVars, ghostVars, normVars,
                   retryVars, castVars, fanVars>>

\* a run task that ends a failed run with a status of its own
TaskFailed_Aborted(t) ==
    /\ cur = 0
    /\ pc[t] = "failing"
    /\ status' = "aborted"
    /\ error' = "Concept analysis failed"
    /\ seen' = broadcast_message(active_connections, Msg("error", progress, steps))
    /\ heard' = hear_message(active_connections, Msg("error", progress, steps))
    /\ pc' = [pc EXCEPT ![t] = "failed"]
    /\ last' = Reply("failed", t, "-")
    /\ UNCHANGED <<progress, current_step, steps, outputs, approval_request,
                   workflow_manager, active_connections, nruns, uploads, todo, mgr, nreq, ri,
                   pending_requests, workflow_completed, mgrVars, cur, ghostVars, normVars,
                   retryVars, castVars, fanVars, resVars>>

\* the except clause of execute_concept_analysis_async
TaskFailed(t) ==
    /\ cur = 0
    /\ pc[t] = "failing"
    /\ status' = "error"
    /\ error' = "Concept analysis failed"
    /\ seen' = broadcast_message(active_connections, Msg("error", progress, steps))
    /\ heard' = hear_message(active_connections, Msg("error", progress, steps))
    /\ pc' = [pc EXCEPT ![t] = "failed"]
    /\ last' = Reply("failed", t, "-")
    /\ UNCHANGED <<progress, current_step, steps, outputs, approval_request,
                   workflow_manager, active_connections, nruns, uploads, todo, mgr, nreq, ri,
                   pending_requests, workflow_completed, mgrVars, cur, ghostVars, normVars,
                   retryVars, castVars, fanVars, resVars>>

\* an exception inside build_concept_evaluation_workflow: its except clause
\* calls _handle_error and returns False, and analyze_clothing_concept raises;
\* when it is raised inside _initialize_chat_clients, the constructor of the
\* first, second or third client has raised
BuildFailed(t) ==
    /\ cur \in {0, t}
    /\ pc[t] = "build"
    /\ status' = "error"
    /\ error' = "Failed to build Zava concept workflow"
    /\ seen' = broadcast_message(active_connections, Msg("error", progress, steps))
    /\ heard' = hear_message(active_connections, Msg("error", progress, steps))
    /\ IF todo[t] # <<>> /\ Head(todo[t]) = O("Fresh AI chat clients initialized")
       THEN \E n \in 0..2 : chat' = [chat EXCEPT ![mgr[t]] = initialize_chat_clients(@, n)]
       ELSE UNCHANGED chat
    /\ todo' = [todo EXCEPT ![t] = <<>>]
    /\ pc' = [pc EXCEPT ![t] = "raised"]
    /\ cur' = Holder(t, "raised", TRUE)
    /\ last' = Reply("task", t, "build_failed")
    /\ UNCHANGED <<progress, current_step, steps, outputs, approval_request,
                   workflow_manager, active_connections, nruns, uploads, mgr, nreq, ri,
                   pending_requests, workflow_completed, mgrVars, ghostVars, normVars,
                   retryVars, castVars, fanVars>>

(***************************************************************************)
(* SpecRetry: the first run of the process with no websocket client, in    *)
(* which every attempt of a stream succeeds or fails with one of Failures, *)
(* and the fan-in of the first iteration receives one of FanInInputs.      *)
(***************************************************************************)
NextRetry ==
    \/ StartFirst
    \/ submit_team_approval
    \/ \E t \in Runs, responses \in FanInInputs : RunStreamOf(t, 1, responses)
    \/ RunTask
    \/ \E t \in Runs, e \in Failures : StreamRetry(t, e)
    \/ \E t \in Runs, e \in Failures : StreamRaise(t, e)
    \/ \E t \in Runs : HandleError(t)
    \/ \E t \in Runs : TaskFailed(t)

SpecRetry == Init /\ [][NextRetry]_vars

(***************************************************************************)
(* SpecRun: the first run of the process with no websocket client and all  *)
(* request handlers.  A first iteration yields one approval request or     *)
(* none; an executor may catch a failure; the build or an attempt of a     *)
(* stream may fail.  Only the first iteration of a run may yield no        *)
(* request, which keeps the number of iterations finite.                   *)
(***************************************************************************)
CatchingStages == {"none", "clothing_concept_parser", "concurrent_fashion_analysis_logger"}

NextRun ==
    \/ UploadValid
    \/ UploadInvalid
    \/ StartFirst
    \/ StartRejected
    \/ submit_team_approval
    \/ get_analysis_status
    \/ \E t \in Runs, k \in 0..1, stage \in CatchingStages :
          /\ pc[t] = "stream"
          /\ k = 0 => completed_steps[mgr[t]] = {}
          /\ RunStreamIn(t, k, AllAnswered, stage)
    \/ \E t \in Runs : SendResponsesIn(t, TRUE)
    \/ RunTask
    \/ \E t \in Runs, e \in {E_rate, E_reset} : StreamRetry(t, e)
    \/ \E t \in Runs, e \in {E_rate, E_reset} : StreamRaise(t, e)
    \/ \E t \in Runs : BuildFailed(t)
    \/ \E t \in Runs : HandleError(t)
    \/ \E t \in Runs : TaskFailed(t)

SpecRun == Init /\ [][NextRun]_vars

(***************************************************************************)
(* SpecCleanup: the first run of the process with no websocket client and  *)
(* every way out of analyze_clothing_concept: the build fails, an attempt  *)
(* of a stream fails for good, or the run completes; the close of a chat   *)
(* client may raise.                                                       *)
(***************************************************************************)
NextCleanup ==
    \/ StartFirst
    \/ submit_team_approval
    \/ \E t \in Runs : RunStream(t, 1)
    \/ RunTask
    \/ \E t \in Runs : StreamRaise(t, E_reset)
    \/ \E t \in Runs : BuildFailed(t)
    \/ \E t \in Runs : CloseFails(t)
    \/ \E t \in Runs : HandleError(t)
    \/ \E t \in Runs : TaskFailed(t)

SpecCleanup == Init /\ [][NextCleanup]_vars

(***************************************************************************)
(* SpecNorm: the normalization of one human response, for every raw input  *)
(* of RawInputs: either handed to route_decision as it is, or first        *)
(* returned by _wait_for_approval_decision.                                *)
(***************************************************************************)
InitNorm ==
    /\ InitBackend
    /\ raw \in RawInputs
    /\ routed = NotRouted

RouteRaw ==
    /\ routed = NotRouted
    /\ routed' = route_decision(raw)
    /\ last' = Reply("route", 0, "-")
    /\ UNCHANGED <<statusVars, workflow_manager, active_connections, seen, heard, nruns, uploads,
                   taskVars, mgrVars, cur, ghostVars, raw, retryVars, castVars, fanVars, resVars>>

RouteWaited ==
    /\ routed = NotRouted
    /\ routed' = [route_decision(OrNo(raw)) EXCEPT !.kind = "waited"]
    /\ last' = Reply("wait_route", 0, "-")
    /\ UNCHANGED <<statusVars, workflow_manager, active_connections, seen, heard, nruns, uploads,
                   taskVars, mgrVars, cur, ghostVars, raw, retryVars, castVars, fanVars, resVars>>

NextNorm == RouteRaw \/ RouteWaited

SpecNorm == InitNorm /\ [][NextNorm]_vars

(***************************************************************************)
(* SpecRestart: up to MaxRuns runs of one process, with no websocket       *)
(* client and no upload; a decision is submitted without feedback.  A      *)
(* start is accepted in every status but running; the accepted start       *)
(* requests arrive while every earlier run task has ended or is waiting    *)
(* for a decision.                                                         *)
(***************************************************************************)
StartAtRest ==
    /\ \A t \in Runs : pc[t] \in {"idle", "done", "failed", "waiting"}
    /\ StartAccepted

NextRestart ==
    \/ StartAtRest
    \/ StartRejected
    \/ \E d \in Decisions : SubmitAccepted(d, <<>>)
    \/ \E d \in Decisions : SubmitRejected(d, <<>>)
    \/ \E t \in Runs : RunStream(t, 1)
    \/ RunTask

SpecRestart == Init /\ [][NextRestart]_vars

(***************************************************************************)
(* SpecFanIn: the first run of the process with no websocket client, in    *)
(* which each evaluator answers with a text of its own subject, with a     *)
(* text that holds no keyword, or with an empty text.  SpecFanInLive adds  *)
(* that the event loop runs a task that is ready.                          *)
(***************************************************************************)
T_plain == <<"L", "o", "o", "k", "s", " ", "f", "i", "n", "e">>

FanInTexts ==
    {<<Response("market", m), Response("design", d), Response("production", p)>> :
        m \in {T_market, T_plain, <<>>},
        d \in {T_design, T_plain, <<>>},
        p \in {T_production, T_plain, <<>>}}

NextFanIn ==
    \/ StartFirst
    \/ submit_team_approval
    \/ \E t \in Runs, responses \in FanInTexts : RunStreamOf(t, 1, responses)
    \/ RunTask

SpecFanIn == Init /\ [][NextFanIn]_vars

SpecFanInLive == SpecFanIn /\ WF_vars(RunTask)

(***************************************************************************)
(* SpecClassify: the classification of one analysis text by                *)
(* log_fashion_analysis_outputs, for every text of up to MaxWords words of *)
(* Words at every position of the response list.                           *)
(***************************************************************************)
Words ==
    <<<<"T", "r", "e", "n", "d">>,
      <<"F", "A", "B", "R", "I", "C">>,
      <<"C", "o", "s", "t">>,
      <<"e", "c", "o">>,
      <<"p", "l", "a", "i", "n">>,
      <<"S", "u", "p", "p", "l", "y">>,
      <<"S", "t", "y", "l", "e">>>>

WordSeqs == UNION {[1..n -> 1..Len(Words)] : n \in 1..MaxWords}

RECURSIVE JoinWords(_)
\* the words of ws separated by one space
JoinWords(ws) ==
    IF Len(ws) = 1 THEN Words[ws[1]]
    ELSE Words[Head(ws)] \o <<" ">> \o JoinWords(Tail(ws))

ClassifyInputs ==
    {[words |-> ws, content |-> JoinWords(ws), i |-> i] :
        ws \in WordSeqs, i \in 1..Len(DefaultComponentNames)}

InitClassify ==
    /\ InitBackend
    /\ raw \in ClassifyInputs
    /\ routed = NotRouted

\* the body of the loop over the responses, up to the choice of the key
Classify ==
    /\ routed = NotRouted
    /\ strip(raw.content) # <<>>
    /\ routed' = [kind |-> "component", name |-> component_name(strip(raw.content), raw.i)]
    /\ last' = Reply("classify", raw.i, "-")
    /\ UNCHANGED <<statusVars, workflow_manager, active_connections, seen, heard, nruns, uploads,
                   taskVars, mgrVars, cur, ghostVars, raw, retryVars, castVars, fanVars, resVars>>

NextClassify == Classify

SpecClassify == InitClassify /\ [][NextClassify]_vars

(***************************************************************************)
(* SpecCast: ZavaWebSocketManager alone.  Up to MaxPublishes calls of      *)
(* broadcast_message, made by the run task and by a request handler, run   *)
(* their delivery loops from suspension to suspension: the loop is a list  *)
(* iterator over the live list active_connections, and every await         *)
(* connection.send_text is a suspension point at which the other caller    *)
(* and the websocket endpoints (connect, close, disconnect) run.  The code *)
(* holds no lock and keeps no queue, so two sends that are awaited at the  *)
(* same time complete in either order.                                     *)
(***************************************************************************)
castRest == <<statusVars, workflow_manager, seen, heard, nruns, uploads, taskVars, mgrVars,
              cur, ghostVars, normVars, retryVars, fanVars, resVars>>

\* the delivery loop from the point where it is resumed to its next suspension:
\* the list iterator yields the element after idx of the live list and
\* send_text is awaited for it, or the iterator is exhausted, the noted
\* connections are removed and the call returns
Advance(call, conns) ==
    IF call.idx < Len(conns)
    THEN [call EXCEPT !.idx = @ + 1, !.conn = conns[call.idx + 1], !.pc = "sending",
                      !.attempted = @ \cup {conns[call.idx + 1]}]
    ELSE [call EXCEPT !.pc = "returned", !.conn = "-",
                      !.stayed = call.present \cap Range(conns)]

Kept(call, conns) ==
    IF call.idx < Len(conns)
    THEN conns
    ELSE SelectSeq(conns, LAMBDA y : y \notin Range(call.disconnected))

\* a caller enters broadcast_message: disconnected = [], a new iterator, and
\* the first send_text is awaited
CastBegin(c) ==
    /\ cast[c].pc \in {"idle", "returned"}
    /\ published < MaxPublishes
    /\ published' = published + 1
    /\ LET call == [NoCall EXCEPT !.pc = "loop", !.msg = published + 1,
                                  !.present = Range(active_connections)] IN
          /\ cast' = [cast EXCEPT ![c] = Advance(call, active_connections)]
          /\ active_connections' = Kept(call, active_connections)
    /\ last' = Reply("broadcast", published + 1, c)
    /\ UNCHANGED <<castRest, broken, inbox>>

\* send_text returns: the client has the message, and the loop goes on
CastSent(c) ==
    /\ cast[c].pc = "sending"
    /\ cast[c].conn \notin broken
    /\ inbox' = [inbox EXCEPT ![cast[c].conn] = Append(@, cast[c].msg)]
    /\ cast' = [cast EXCEPT ![c] = Advance(cast[c], active_connections)]
    /\ active_connections' = Kept(cast[c], active_connections)
    /\ last' = Reply("sent", cast[c].msg, c)
    /\ UNCHANGED <<castRest, broken, published>>

\* send_text raises: the except clause notes the connection, and the loop
\* goes on
SendFailed(c) ==
    /\ cast[c].pc = "sending"
    /\ cast[c].conn \in broken
    /\ LET call == [cast[c] EXCEPT !.disconnected = Append(@, cast[c].conn)] IN
          /\ cast' = [cast EXCEPT ![c] = Advance(call, active_connections)]
          /\ active_connections' = Kept(call, active_connections)
    /\ last' = Reply("send_failed", cast[c].msg, c)
    /\ UNCHANGED <<castRest, broken, inbox, published>>

\* the client of a connection closes it: later sends to it raise
Drop(s) ==
    /\ s \in Range(active_connections)
    /\ s \notin broken
    /\ broken' = broken \cup {s}
    /\ last' = Reply("close", 0, s)
    /\ UNCHANGED <<castRest, active_connections, cast, inbox, published>>

\* websocket_endpoint of a closed connection: WebSocketDisconnect, finally
DisconnectDropped(s) == s \in broken /\ Disconnect(s)

NextCast ==
    \/ \E s \in Clients : Connect(s)
    \/ \E s \in Clients : Drop(s)
    \/ \E s \in Clients : DisconnectDropped(s)
    \/ \E c \in Callers : CastBegin(c)
    \/ \E c \in Callers : CastSent(c)
    \/ \E c \in Callers : SendFailed(c)

SpecCast == Init /\ [][NextCast]_vars

(***************************************************************************)
(* Properties.                                                             *)
(***************************************************************************)

\* run tasks that have begun to execute and have not finished
InFlight == {t \in Runs : pc[t] \notin {"idle", "launched", "done", "failed"}}

AllTimeout(r) == r # <<>> /\ \A i \in 1..Len(r) : r[i] = "timeout"

\* C1: a start request issued while the status is running is rejected with an
\* error and leaves the Run unchanged: status, progress, current step, stage
\* log, output log, approval request and error field.
C1_StartWhileRunningKeepsRun ==
    [][(status = "running" /\ last'.op = "start")
          => (last'.code # 200 /\ UNCHANGED statusVars)]_vars

\* C2: a start request issued while the status is waiting_approval fails: no
\* new manager, no second run task, and the pending approval request is kept.
C2_StartWhileWaitingFails ==
    [][(status = "waiting_approval" /\ last'.op = "start")
          => (/\ last'.code # 200
              /\ workflow_manager' = workflow_manager
              /\ nruns' = nruns
              /\ pc' = pc
              /\ approval_request' = approval_request)]_vars

\* C3: at most one run task has been started and has not finished.
C3_AtMostOneRunInFlight == Cardinality(InFlight) <= 1

\* C4: within one run, the progress values of the progress events a websocket
\* client receives never decrease.
C4_ProgressNonDecreasing ==
    [][\A s \in Subs : (seen[s] # -1 /\ seen'[s] # -1) => seen'[s] >= seen[s]]_vars

\* C5: a run never has two approval requests open at once: a request is shown
\* to the team only after every earlier request of the run has been answered
\* by a decision or by the timeout.
C5_AtMostOnePending == \A t \in Runs : Cardinality(opened[t]) <= 1

C5_Witness ==
    \E t \in Runs : pc[t] = "waiting" /\ ri[t] = 2 /\ opened[t] = {2}

\* the raw input is one of the approval words in any letter case, with
\* whitespace before and after it
IsApprovalInput(r) ==
    /\ r # None
    /\ \E w \in {S_yes, S_y, S_approve, S_approved}, a \in 0..Len(r) :
          /\ a + Len(w) <= Len(r)
          /\ \A i \in 1..a : r[i] \in Whitespace
          /\ \A i \in 1..Len(w) : r[a + i] \in {w[i], UpperChar(w[i])}
          /\ \A i \in (a + Len(w) + 1)..Len(r) : r[i] \in Whitespace

\* C6: the decision is approved exactly when the raw input, trimmed and
\* lower-cased, is yes, y, approve or approved; every other input, an empty
\* or a missing one included, is a rejection.
C6_FailClosedNormalization ==
    routed # NotRouted => (routed.approved <=> IsApprovalInput(raw))

C6_Witness ==
    /\ routed.kind = "decision"
    /\ routed.approved
    /\ raw \notin {S_yes, S_y, S_approve, S_approved}

\* C7: a response that submit accepted for the request a run task is
\* processing at the approval gate is the response the wait of that request
\* returns.
C7_AcceptedDecisionIsFed ==
    \A t \in Runs :
        (pc[t] = "decided" /\ acked[t] # None) => Last(pending_requests[t]) = acked[t]

\* C8: a wait that ends by timeout returns a rejection: its response is
\* routed to the rejection branch only, and a run whose requests all timed
\* out ends completed with outcome REJECTED.
C8_TimeoutRejects ==
    \A t \in Runs :
        /\ (pc[t] = "decided" /\ Last(resolved[t]) = "timeout")
              => ~route_decision(Last(pending_requests[t])).approved
        /\ \A i \in 1..Len(pending_requests[t]) :
              resolved[t][i] = "timeout"
                  => FinalizeEvents(route_decision(pending_requests[t][i])) = <<"REJECTED">>
        /\ (pc[t] \in {"cleanup", "done"} /\ AllTimeout(resolved[t]))
              => workflow_completed[t] = "REJECTED"
        /\ (last = Reply("complete", t, workflow_completed[t]) /\ AllTimeout(resolved[t]))
              => (status = "completed" /\ last.text = "REJECTED")

C8_Witness ==
    \E t \in Runs :
        /\ pc[t] = "done"
        /\ AllTimeout(resolved[t])
        /\ last = Reply("complete", t, "REJECTED")
        /\ status = "completed"

\* C9: once the wait of a request has timed out, the status object no longer
\* holds that request and the status is no longer waiting_approval.
C9_TimeoutDiscardsRequest ==
    \A t \in Runs :
        (pc[t] = "decided" /\ Last(resolved[t]) = "timeout")
            => (approval_request # <<t, ri[t]>> /\ status # "waiting_approval")

\* C10: a submit request made when there is no manager or the status is not
\* waiting_approval fails with an error and changes neither status, progress,
\* approval request nor the stored response of any manager.
C10_RejectedSubmitChangesNothing ==
    [][(last'.op = "submit" /\ (workflow_manager = 0 \/ status # "waiting_approval"))
          => (/\ last'.code = 500
              /\ status' = status
              /\ progress' = progress
              /\ approval_request' = approval_request
              /\ approval_response' = approval_response
              /\ approval_event' = approval_event)]_vars

C10_Witness ==
    /\ last.op = "submit"
    /\ last.code = 500
    /\ workflow_manager # 0
    /\ status = "running"
    /\ \E t \in Runs : pc[t] = "waiting"

\* C11: every decision route_decision sends selects exactly one finalize
\* stage: exactly one of the two edge conditions is true for it, an approved
\* decision takes the approved-report branch and ends in the completion event
\* APPROVED, any other takes the rejection-email branch and ends in REJECTED.
C11_ExactlyOneFinalizeStage ==
    routed.kind = "decision" =>
        /\ concept_approval_condition(routed) # concept_rejection_condition(routed)
        /\ concept_approval_condition(routed) = routed.approved
        /\ FinalizeEvents(routed) = IF routed.approved THEN <<"APPROVED">> ELSE <<"REJECTED">>

C11_Witness ==
    /\ routed.kind = "decision"
    /\ ~routed.approved
    /\ lower(strip(routed.feedback)) \notin RejectWords
    /\ FinalizeEvents(routed) = <<"REJECTED">>

\* C12: when the team submits decision "no" with feedback "needs more
\* detail", the decision the approval manager routes for it is approved = false
\* with the feedback "needs more detail" alone, and it takes the rejection
\* branch to the outcome REJECTED.
C12_NoWithFeedback ==
    \A t \in Runs :
        (/\ pc[t] = "decided"
         /\ acked[t] = full_response(S_no, S_needs_more_detail)
         /\ Last(pending_requests[t]) = acked[t])
            => /\ route_decision(Last(pending_requests[t])) =
                     [kind |-> "decision", approved |-> FALSE,
                      feedback |-> S_needs_more_detail]
               /\ FinalizeEvents(route_decision(Last(pending_requests[t]))) = <<"REJECTED">>

C14_FailureIsolated ==
    \A c \in Callers :
        (cast[c].pc = "returned" /\ cast[c].disconnected # <<>>) =>
            /\ Range(cast[c].disconnected) \cap Range(active_connections) = {}
            /\ \A s \in cast[c].stayed \ Range(cast[c].disconnected) :
                  \E i \in 1..Len(inbox[s]) : inbox[s][i] = cast[c].msg

\* C15: a connection that is registered from the beginning to the end of a
\* broadcast_message call is attempted by that call, whatever connect and
\* disconnect of other connections happens during the loop.
C15_EverySubscriberAttempted ==
    \A c \in Callers : cast[c].pc = "returned" => cast[c].stayed \subseteq cast[c].attempted

\* C16: every client receives the messages in the order in which their
\* broadcast_message calls began.
C16_DeliveredInPublishOrder ==
    \A s \in Clients : \A i, j \in 1..Len(inbox[s]) : i < j => inbox[s][i] < inbox[s][j]

\* C17: one call of _execute_workflow_with_retry makes at most 3 attempts;
\* when the third attempt has failed the failure has left the wrapper, and the
\* run task that it ends has set the status to "error".
C17_AtMostThreeAttempts ==
    \A t \in Runs :
        /\ Len(tried[t]) <= 3
        /\ Len(tried[t]) = 3 => pc[t] \in {"raised", "failing", "failed"}
        /\ pc[t] \in {"failing", "failed"} => (status = "error" /\ error # "none")

C17_Witness ==
    \E t \in Runs :
        /\ pc[t] = "failed"
        /\ Len(tried[t]) = 3
        /\ \A i \in 1..3 : tried[t][i] \in {E_rate5, E_rate12, E_rate}
        /\ Len(slept[t]) = 2
        /\ status = "error"

\* C18: a failure whose text does not contain "rate limit" is the last
\* failure of its call: it leaves the wrapper at once, no sleep is made for
\* it and no attempt follows it.
C18_NonRateLimitNotRetried ==
    \A t \in Runs : \A i \in 1..Len(tried[t]) :
        tried[t][i] \in {E_reset, E_busy5} =>
            /\ i = Len(tried[t])
            /\ Len(slept[t]) = i - 1
            /\ pc[t] \in {"raised", "failing", "failed"}

C18_Witness ==
    \E t \in Runs : pc[t] = "failed" /\ tried[t] = <<E_busy5>> /\ slept[t] = <<>>

\* the seconds a failure text asks for in the form "try again in N seconds",
\* 30 for a text without it
AskedSeconds(e) ==
    CASE e = E_rate5 -> 5
      [] e = E_rate12 -> 12
      [] OTHER -> 30

\* C19: every sleep of the wrapper follows a failed attempt and lasts the
\* seconds asked for by the failure text (30 when it asks for none) plus 2;
\* after one failure that asks for 5 seconds and a success there has been
\* exactly one sleep, of 7 seconds.
C19_BackoffDelay ==
    \A t \in Runs :
        /\ Len(slept[t]) <= Len(tried[t])
        /\ \A i \in 1..Len(slept[t]) : slept[t][i] = AskedSeconds(tried[t][i]) + 2
        /\ (pc[t] = "events" /\ tried[t] = <<E_rate5>>) => slept[t] = <<7>>

C19_Witness ==
    \E t \in Runs : pc[t] = "events" /\ tried[t] = <<E_rate5>> /\ slept[t] = <<7>>

\* C20: when the fan-in has received the responses of two evaluators, the
\* third having failed, the consolidated components are exactly those two
\* responses.
C20_FanInKeepsSurvivors ==
    Len(consolidated_analysis.received) = 2 =>
        /\ Cardinality(consolidated_analysis.components) = 2
        /\ {x.content : x \in consolidated_analysis.components}
              = {strip(r.output) : r \in Range(consolidated_analysis.received)}

\* C21: an attempt that fails with a rate-limit failure and is retried adds
\* nothing to the outputs of the status object and changes neither the status
\* nor the progress.
C21_RetryInvisible ==
    [][last'.text = "retry" =>
          (outputs' = outputs /\ status' = status /\ progress' = progress)]_vars

StatusEdges ==
    {<<"ready", "concept_uploaded">>, <<"concept_uploaded", "running">>,
     <<"ready", "running">>, <<"running", "waiting_approval">>,
     <<"waiting_approval", "running">>, <<"running", "completed">>,
     <<"running", "error">>, <<"waiting_approval", "error">>,
     <<"ready", "error">>, <<"concept_uploaded", "error">>}

\* C23: the status changes only along the edges of the lifecycle, and it
\* leaves completed or error only by an upload or a start request.
C23_StatusEdges ==
    [][status' # status =>
          \/ <<status, status'>> \in StatusEdges
          \/ status \in {"completed", "error"} /\ last'.op \in {"upload", "start"}]_vars

\* C24: an upload request handled while the status is running or
\* waiting_approval, with a valid or an invalid file, changes neither the
\* status nor the approval request nor the error field.
C24_UploadLeavesActiveRun ==
    [][(last'.op = "upload" /\ status \in {"running", "waiting_approval"}) =>
          (status' = status /\ approval_request' = approval_request /\ error' = error)]_vars

\* C25: once a stage of a run has failed (parse, consolidate,
\* finalize-approved or finalize-rejected), the run is aborted: the status is
\* never waiting_approval or completed afterwards.
C25_StageFailureAborts ==
    \A t \in Runs :
        stage_error[t] # "none" => status \notin {"waiting_approval", "completed"}

\* C26: in a failed run the error field is written once: a step that
\* changes it finds it unset.
C26_ErrorSetOnce ==
    [][error' # error => error = "none"]_vars

\* C27: the loop of a run never restarts the pipeline from its first stage:
\* run_stream is entered only by a run none of whose executors has completed.
C27_NoRestartFromFirstStage ==
    [][\A t \in Runs :
          (pc[t] = "stream" /\ pc'[t] = "events" /\ last'.text = "run_stream")
              => completed_steps[mgr[t]] = {}]_vars

\* C28: a status query is served in every state of a run and changes nothing:
\* the step that answers it leaves the status object, the run tasks, the
\* managers and the connections as they were.
C28_StatusQueryChangesNothing ==
    [][last'.op = "status" =>
          UNCHANGED <<statusVars, taskVars, mgrVars, workflow_manager, active_connections,
                      seen, heard, nruns, uploads, fanVars, retryVars>>]_vars

C28_Witness ==
    /\ last.op = "status"
    /\ last.text = "waiting_approval"
    /\ \E t \in Runs : pc[t] = "waiting"

\* C29: in a run that raises two or more approval requests the requests are
\* open one at a time, and a request after the first is answered with the
\* decision that submit accepted for it.
C29_EachGateAnswered ==
    \A t \in Runs :
        /\ Cardinality(opened[t]) <= 1
        /\ (nreq[t] >= 2 /\ ri[t] >= 2 /\ pc[t] = "decided" /\ acked[t] # None)
              => pending_requests[t][ri[t]] = acked[t]

\* the keyword set to which each word of Words belongs, in the order market,
\* design, production, sustainability; 0 for a word of no set
KeywordSetOfWord == <<1, 2, 3, 4, 0, 3, 2>>

ComponentNamesInOrder ==
    <<"market_trend_analysis", "design_evaluation", "production_feasibility",
      "sustainability_assessment">>

\* C30: a text is classified under the first keyword set, in the order
\* market, design, production, sustainability, of which its lower-cased form
\* contains a word; a text with no such word keeps the positional label of its
\* response.
C30_FirstMatchingSetWins ==
    routed.kind = "component" =>
        LET hit == {KeywordSetOfWord[raw.words[j]] : j \in 1..Len(raw.words)} \ {0}
        IN routed.name = IF hit = {} THEN DefaultComponentNames[raw.i]
                         ELSE ComponentNamesInOrder[CHOOSE c \in hit : \A d \in hit : c <= d]

C30_Witness ==
    /\ routed.kind = "component"
    /\ raw.words = <<3, 2>>
    /\ routed.name = "design_evaluation"

\* C31: consolidation keeps every non-empty output it received: the result
\* has as many components as non-empty outputs were received, and each such
\* output is the content of a component.
C31_EveryOutputKept ==
    LET received == consolidated_analysis.received
        nonEmpty == {i \in 1..Len(received) : strip(received[i].output) # <<>>}
    IN /\ Cardinality(consolidated_analysis.components) = Cardinality(nonEmpty)
       /\ \A i \in nonEmpty :
             \E x \in consolidated_analysis.components : x.content = strip(received[i].output)

\* the keyword sets of the classification
KeywordSets == {MarketKeywords, DesignKeywords, ProductionKeywords, SustainabilityKeywords}

\* the fan-in has received responses, each a non-empty text with no keyword
AllPlain ==
    /\ consolidated_analysis.received # <<>>
    /\ \A r \in Range(consolidated_analysis.received) :
          /\ strip(r.output) # <<>>
          /\ \A keywords \in KeywordSets : ~AnyKeyword(keywords, r.output)

\* C32: when none of the N outputs the fan-in received holds a keyword, the
\* consolidated result has N components, none under a category name and each
\* under the positional label of its output, and the run goes on to
\* waiting_approval.
C32_PlainOutputsFallBack ==
    /\ [](AllPlain =>
            LET components == consolidated_analysis.components
                N == Len(consolidated_analysis.received)
            IN /\ Cardinality(components) = N
               /\ \A x \in components : x.name \notin Range(ComponentNamesInOrder)
               /\ \A i \in 1..N :
                     \E x \in components :
                        /\ x.name = <<"fashion_analysis_component_1",
                                      "fashion_analysis_component_2",
                                      "fashion_analysis_component_3">>[i]
                        /\ x.content = strip(consolidated_analysis.received[i].output))
    /\ ((AllPlain /\ last.text = "run_stream") ~> status = "waiting_approval")

C32_Witness ==
    /\ AllPlain
    /\ Len(consolidated_analysis.received) = 3
    /\ status = "waiting_approval"
    /\ \E t \in Runs : pc[t] = "waiting"

\* C33: an evaluator whose text is empty has no component in the
\* consolidated result: every component holds a non-empty output that was
\* received, and when every output is empty the result has no component.
C33_EmptyOutputNoComponent ==
    LET received == consolidated_analysis.received
    IN /\ \A x \in consolidated_analysis.components :
             \E r \in Range(received) :
                 strip(r.output) # <<>> /\ x.content = strip(r.output)
       /\ (\A r \in Range(received) : strip(r.output) = <<>>)
             => consolidated_analysis.components = {}

\* C34: the step of an accepted start request leaves the status object
\* reset: status running, progress 0, no step, no output, no approval request
\* and no error; and the task of the new run has not begun.
C34_StartResetsRun ==
    [][(last'.op = "start" /\ last'.code = 200) =>
          /\ status' = "running"
          /\ progress' = 0
          /\ steps' = 0
          /\ outputs' = 0
          /\ approval_request' = NoReq
          /\ error' = "none"
          /\ pc'[nruns'] = "launched"]_vars

C34_Witness ==
    /\ last = Reply("start", 200, "-")
    /\ nruns = 2
    /\ pc[1] \in {"done", "waiting"}
    /\ outputs = 0
    /\ error = "none"

\* C35: every event sent to a websocket client carries the "status" entry,
\* the snapshot of the status object.
C35_EveryEventCarriesSnapshot == ~last.bare

\* C36: in every reachable state the approval request of the status object
\* is set exactly when the status is waiting_approval.
C36_RequestIffWaiting ==
    approval_request # NoReq <=> status = "waiting_approval"

\* C37: the outcome an accepted submit announces is the branch the workflow
\* takes for the response it stored: APPROVED exactly when route_decision
\* approves that response.
C37_AnnouncedIsRouted ==
    [][(last'.op = "submit" /\ last'.code = 200) =>
          ((last'.text = "APPROVED")
              <=> route_decision(approval_response'[workflow_manager]).approved)]_vars

\* C38: a response stored for the decision "yes", with or without feedback,
\* that the wait of its request returns is routed to the approved branch.
C38_FeedbackKeepsApproval ==
    \A t \in Runs :
        (/\ pc[t] = "decided"
         /\ \E f \in Feedbacks : acked[t] = full_response(S_yes, f)
         /\ Last(pending_requests[t]) = acked[t])
            => concept_approval_condition(route_decision(Last(pending_requests[t])))

\* C39: a retry issues again the request of the failed attempt and processes
\* none of its events: the step of a retry leaves the pending responses, the
\* position of the run, the progress steps and the approval request as they
\* were, and a retried iteration that began with the responses to decisions
\* already given ends as a send_responses iteration, never as a new first
\* iteration that would ask for them again.
C39_RetrySameRequest ==
    [][\A t \in Runs :
          /\ (last'.text = "retry" /\ last'.code = t) =>
                UNCHANGED <<pending_requests, pc, todo, nreq, ri, steps, progress,
                            current_step, status, approval_request, opened, resolved,
                            completed_steps, approval_event, approval_response>>
          /\ (pc[t] = "stream" /\ pc'[t] = "events" /\ tried[t] # <<>>
                 /\ resolved[t] # <<>>) => last'.text = "send_responses"]_vars

C39_Witness ==
    \E t \in Runs :
        /\ tried[t] # <<>>
        /\ resolved[t] # <<>>
        /\ pc[t] = "events"
        /\ last = Reply("task", t, "send_responses")

\* C40: when analyze_clothing_concept has returned or raised, close has been
\* attempted on every chat client constructed for the run.
C40_EveryClientClosed ==
    \A t \in Runs :
        pc[t] \in {"done", "failing", "failed"}
            => chat[mgr[t]].closed = 1..chat[mgr[t]].made

====
